---- MODULE Spec2Model ----
(***************************************************************************)
(* Payment gateway (x402Middleware) and sentiment route of the            *)
(* crypto-sentiment-api server.                                            *)
(*                                                                         *)
(* Two gateways keep a replay ledger (paymentsDB):                         *)
(*   "v130" : src/sentiment-api.js 691-857, facilitator + on-chain         *)
(*            fallback, ledger key transactionHash || signature[0..20)     *)
(*   "v100" : src/unnamed/part_002 676-765, signed message checked         *)
(*            locally, ledger key signature[0..20)                         *)
(* A server process runs one of them; each request is a chain of           *)
(* run-to-suspension steps of the single-threaded event loop.              *)
(*                                                                         *)
(* Two more parts of the repository have a specification of their own:     *)
(*   "v210"     : src/sentiment-api.js 1-665, the x402 v2 server, whose    *)
(*                route is guarded by the SDK and keeps paymentLog         *)
(*   "part_004" : src/unnamed/part_004 126-236 and 968-999, the source     *)
(*                collector (fetchSubreddit, searchReddit, getSentiment)   *)
(***************************************************************************)
EXTENDS Integers, Sequences, FiniteSets, TLC

\* ------------------------------------------------------------------ bounds
NReq == 2
MaxSubs == 2            \* longest subreddit list of a coin

\* --------------------------------------------------------------- constants
Null == "null"          \* undefined / null result of a call
NoStr == << >>           \* an absent (falsy) string field
Price == "0.03"
SigIdLen == 20
NSubs == 4
NSubredditUrls == 3
NSearchUrls == 2
NSearches == 2

Reqs == 1..NReq

\* ------------------------------------------------------------------ strings
\* Strings that the code slices or case-folds are tuples of characters.
LowerChar(c) ==
  CASE c = "A" -> "a"
    [] c = "B" -> "b"
    [] c = "W" -> "w"
    [] c = "C" -> "c"
    [] c = "T" -> "t"
    [] OTHER -> c

toLowerCase(s) == [i \in DOMAIN s |-> LowerChar(s[i])]

slice(s, n) == IF Len(s) <= n THEN s ELSE SubSeq(s, 1, n)

Rep(c, n) == [i \in 1..n |-> c]

UpperChar(c) ==
  CASE c = "a" -> "A"
    [] c = "b" -> "B"
    [] c = "c" -> "C"
    [] c = "e" -> "E"
    [] c = "i" -> "I"
    [] c = "n" -> "N"
    [] c = "o" -> "O"
    [] c = "p" -> "P"
    [] c = "t" -> "T"
    [] OTHER -> c

toUpperCase(s) == [i \in DOMAIN s |-> UpperChar(s[i])]

\* String.prototype.includes
includes(text, part) ==
  \E i \in 0..(Len(text) - Len(part)) : SubSeq(text, i + 1, i + Len(part)) = part

\* ------------------------------------------------------- the outside world
WALLET_ADDRESS == <<"0", "x", "w", "A">>
WalletOtherCase == <<"0", "x", "W", "a">>
OtherAddress == <<"0", "x", "b", "b">>

H1 == <<"0", "x", "a", "1">>
H2 == <<"0", "x", "a", "2">>
H3 == <<"0", "x", "a", "3">>
H1u == <<"0", "x", "A", "1">>

S1 == Rep("s", SigIdLen) \o <<"1">>
S2 == Rep("t", SigIdLen) \o <<"2">>
S1b == Rep("s", SigIdLen) \o <<"9">>
S2b == Rep("t", SigIdLen) \o <<"8">>
S3 == <<"u", "3">>
S4 == <<"v", "4">>

\* The payments a caller can present.  amount and to are what the payment
\* really transfers: for a payment with a transaction hash they are the
\* value and recipient of that transaction on chain, for a signed payment
\* they are the fields of the signed message.  sigValid is whether
\* ethers.verifyMessage accepts the signature.
P1 == [transactionHash |-> H1, signature |-> S1, sigValid |-> TRUE,
       amount |-> Price, to |-> WalletOtherCase]
P2 == [transactionHash |-> H2, signature |-> S1b, sigValid |-> TRUE,
       amount |-> "0.01", to |-> WALLET_ADDRESS]
P3 == [transactionHash |-> H3, signature |-> S4, sigValid |-> TRUE,
       amount |-> Price, to |-> OtherAddress]
P4 == [transactionHash |-> NoStr, signature |-> S2, sigValid |-> TRUE,
       amount |-> Price, to |-> WALLET_ADDRESS]
P5 == [transactionHash |-> NoStr, signature |-> S3, sigValid |-> FALSE,
       amount |-> Price, to |-> WALLET_ADDRESS]
P6 == [transactionHash |-> NoStr, signature |-> NoStr, sigValid |-> FALSE,
       amount |-> Price, to |-> WALLET_ADDRESS]

Payments == {P1, P2, P3, P4}

\* Assertions that are not well-formed: a signature that does not verify,
\* and neither transaction hash nor signature.
MalformedPayments == {P5, P6}

\* The payment of P1 presented in another encoding (its transaction hash in
\* another letter case, or only its signature), and a payment of its own
\* whose signature starts like that of P4.
R1u == [P1 EXCEPT !.transactionHash = H1u]
R1s == [P1 EXCEPT !.transactionHash = NoStr]
R4b == [P4 EXCEPT !.signature = S2b]

ReplayPayments == {P1, R1u, R1s, P4, R4b}

NoHeader == [kind |-> "none"]
Malformed == [kind |-> "malformed"]
Headers == {NoHeader, Malformed} \cup {[kind |-> "payment", data |-> p] : p \in Payments}
HeadersReplay == {[kind |-> "payment", data |-> p] : p \in ReplayPayments}
HeadersMalformed ==
  {NoHeader, Malformed} \cup {[kind |-> "payment", data |-> p] : p \in MalformedPayments \cup {P1}}

\* provider.getTransaction(txHash): the transaction stored under the hash.
\* The hash travels as hex data, so its letter case does not matter to the
\* node.
ChainTx(h) ==
  LET p == CHOOSE q \in Payments \cup ReplayPayments \cup MalformedPayments :
              /\ q.transactionHash # NoStr
              /\ toLowerCase(q.transactionHash) = toLowerCase(h)
  IN [to |-> p.to, value |-> p.amount]

FacilitatorOutcomes == {"throw", "notOk", "okBadBody", "okVerified", "okRejected"}
TxOutcomes == {"throw", "null", "found"}
ReceiptOutcomes == {"throw", "null", "failed", "success"}
FeedOutcomes == {"ok", "notOk", "throw"}

\* The facilitator is handed the payment, the expected amount and the
\* expected recipient; it answers verified only for a payment that is
\* backed by a transaction or a valid signature and pays the expected
\* amount to the expected recipient.
FacilitatorMayVerify(p) ==
  /\ p.transactionHash # NoStr \/ p.sigValid
  /\ p.amount = Price
  /\ toLowerCase(p.to) = toLowerCase(WALLET_ADDRESS)

\* -------------------------------------------------------------------- state
VARIABLES variant, paymentsDB, pc, hdr, loc, res, admitted, sub,
          closed, paymentLog, col, eng

vars == <<variant, paymentsDB, pc, hdr, loc, res, admitted, sub,
          closed, paymentLog, col, eng>>

\* what no step of a gateway or of the collection loop of a route reads or
\* writes: the set of requests whose client has gone, the payment log of
\* the x402 v2 server, the state of a getSentiment call and the state of
\* a call of the aggregation engine
aux == <<closed, paymentLog, col, eng>>

\* Locals of one call of verifyPaymentWithFacilitator: what the facilitator
\* call and the two chain queries gave, whether verifyPaymentOnChain was
\* invoked and what it returned, and the value handed to the middleware.
NoLoc == [fac |-> Null, tx |-> Null, receipt |-> Null, onChain |-> FALSE,
          chainResult |-> Null, isValid |-> Null]
NoRes == [status |-> 0, error |-> Null]

\* no getSentiment call is running, the engine has not been called
NoCall == [pc |-> "idle"]

Init ==
  /\ variant \in {"v130", "v100"}
  /\ paymentsDB = << >>
  /\ pc = [r \in Reqs |-> "new"]
  /\ hdr = [r \in Reqs |-> NoHeader]
  /\ loc = [r \in Reqs |-> NoLoc]
  /\ res = [r \in Reqs |-> NoRes]
  /\ admitted = [r \in Reqs |-> FALSE]
  /\ sub = [r \in Reqs |-> 0]
  /\ closed = {}
  /\ paymentLog = << >>
  /\ col = NoCall
  /\ eng = NoCall

Respond(r, status, error) ==
  /\ res' = [res EXCEPT ![r] = [status |-> status, error |-> error]]
  /\ pc' = [pc EXCEPT ![r] = "done"]

\* ------------------------------------------------------------------ ledger
\* paymentData.transactionHash || paymentData.signature?.slice(0, 20)
PaymentIdV130(p) ==
  IF p.transactionHash # NoStr THEN p.transactionHash ELSE slice(p.signature, SigIdLen)

\* signature.slice(0, 20)
PaymentIdV100(p) == slice(p.signature, SigIdLen)

\* bug: the lookup compares a field the records do not have, so it never
\* finds an entry
alreadyUsedNeverFound(db, id) == \E i \in 1..Len(db) : db[i].id = id /\ db[i].amount # Price

\* paymentsDB.find(p => p.id === paymentId)
alreadyUsed(db, id) == \E i \in 1..Len(db) : db[i].id = id

\* bug: the record is built from a field the payment does not carry, so
\* every entry gets the same empty id
paymentRecordWithoutId(id) == [id |-> NoStr, amount |-> Price]

\* paymentRecord = { id: paymentId, ..., amount: price, ... }
paymentRecord(id) == [id |-> id, amount |-> Price]

\* bug: no replay lookup before the push (as in the ledger-less gateway of
\* part_001)
RecordAndAdmitUnchecked(r, id, logOk, catchesLogError) ==
  /\ paymentsDB' = Append(paymentsDB, [id |-> id, amount |-> Price])
  /\ admitted' = [admitted EXCEPT ![r] = TRUE]
  /\ pc' = [pc EXCEPT ![r] = "awaitImport"]
  /\ UNCHANGED res

\* bug: the ledger is assigned a new array holding the record instead of
\* being pushed to
RecordAndAdmitOverwrites(r, id, logOk, catchesLogError) ==
  IF alreadyUsed(paymentsDB, id)
  THEN /\ Respond(r, 403, "Payment already used")
       /\ UNCHANGED <<paymentsDB, admitted>>
  ELSE /\ paymentsDB' = <<paymentRecord(id)>>
       /\ IF logOk \/ catchesLogError
          THEN /\ admitted' = [admitted EXCEPT ![r] = TRUE]
               /\ pc' = [pc EXCEPT ![r] = "awaitImport"]
               /\ UNCHANGED res
          ELSE /\ Respond(r, 400, "Payment verification failed")
               /\ UNCHANGED admitted

\* The synchronous tail of the middleware once the payment is accepted:
\* replay lookup, paymentsDB.push, payments.log write, next().  next() runs
\* the route handler up to its first await (the import in fetchRedditData).
\* catchesLogError says whether appendFileSync sits in its own try/catch.
RecordAndAdmit(r, id, logOk, catchesLogError) ==
  IF alreadyUsed(paymentsDB, id)
  THEN /\ Respond(r, 403, "Payment already used")
       /\ UNCHANGED <<paymentsDB, admitted>>
  ELSE /\ paymentsDB' = Append(paymentsDB, paymentRecord(id))
       /\ IF logOk \/ catchesLogError
          THEN /\ admitted' = [admitted EXCEPT ![r] = TRUE]
               /\ pc' = [pc EXCEPT ![r] = "awaitImport"]
               /\ UNCHANGED res
          ELSE /\ Respond(r, 400, "Payment verification failed")
               /\ UNCHANGED admitted

\* ------------------------------------------------- gateway of part_002 (v100)
\* bug: the recipient of the message is compared with the wallet address as
\* written, without lower-casing the two
MiddlewareV100ExactCase(r, p, logOk) ==
  IF p.signature = NoStr
  THEN /\ Respond(r, 400, "Invalid payment format")
       /\ UNCHANGED <<paymentsDB, admitted>>
  ELSE IF ~p.sigValid
  THEN /\ Respond(r, 400, "Payment verification failed")
       /\ UNCHANGED <<paymentsDB, admitted>>
  ELSE IF p.amount # Price
  THEN /\ Respond(r, 403, "Invalid payment amount")
       /\ UNCHANGED <<paymentsDB, admitted>>
  ELSE IF p.to # WALLET_ADDRESS
  THEN /\ Respond(r, 403, "Invalid payment recipient")
       /\ UNCHANGED <<paymentsDB, admitted>>
  ELSE RecordAndAdmit(r, PaymentIdV100(p), logOk, FALSE)

\* The whole middleware is synchronous: it has no await.
MiddlewareV100(r, p, logOk) ==
  IF p.signature = NoStr
  THEN /\ Respond(r, 400, "Invalid payment format")
       /\ UNCHANGED <<paymentsDB, admitted>>
  ELSE IF ~p.sigValid
  THEN /\ Respond(r, 400, "Payment verification failed")
       /\ UNCHANGED <<paymentsDB, admitted>>
  ELSE IF p.amount # Price
  THEN /\ Respond(r, 403, "Invalid payment amount")
       /\ UNCHANGED <<paymentsDB, admitted>>
  ELSE IF toLowerCase(p.to) # toLowerCase(WALLET_ADDRESS)
  THEN /\ Respond(r, 403, "Invalid payment recipient")
       /\ UNCHANGED <<paymentsDB, admitted>>
  ELSE RecordAndAdmit(r, PaymentIdV100(p), logOk, FALSE)

\* ------------------------------------------------------------ event loop
\* A return of verifyPaymentWithFacilitator resumes the awaiting middleware
\* in a microtask: that continuation runs before the event loop delivers
\* the next I/O event to any request.
Settled == \A q \in Reqs : pc[q] # "verified"

\* ------------------------------------------------------- request arrival
\* Requests are numbered in their order of arrival.
IsNext(r) ==
  /\ pc[r] = "new"
  /\ Settled
  /\ \A q \in Reqs : q < r => pc[q] # "new"

\* Lines 693-725 of sentiment-api.js (678-698 of part_002): no header gives
\* the 402 challenge, a header that is not base64 of JSON throws into the
\* outer catch.
\* bug: the test for a missing header is gone, so Buffer.from(undefined)
\* throws into the outer catch
ArriveWithoutPaymentNoChallenge(r, h) ==
  /\ IsNext(r)
  /\ h.kind # "payment"
  /\ hdr' = [hdr EXCEPT ![r] = h]
  /\ Respond(r, 400, "Payment verification failed")
  /\ UNCHANGED <<aux, variant, paymentsDB, loc, admitted, sub>>

\* bug: the header is decoded outside the try, so a header that is not JSON
\* ends in the 500 of the framework's error handler
ArriveWithoutPaymentUncaught(r, h) ==
  /\ IsNext(r)
  /\ h.kind # "payment"
  /\ hdr' = [hdr EXCEPT ![r] = h]
  /\ IF h.kind = "none"
     THEN Respond(r, 402, "X-PAYMENT header is required")
     ELSE Respond(r, 500, "Internal Server Error")
  /\ UNCHANGED <<aux, variant, paymentsDB, loc, admitted, sub>>

ArriveWithoutPayment(r, h) ==
  /\ IsNext(r)
  /\ h.kind # "payment"
  /\ hdr' = [hdr EXCEPT ![r] = h]
  /\ IF h.kind = "none"
     THEN Respond(r, 402, "X-PAYMENT header is required")
     ELSE Respond(r, 400, "Payment verification failed")
  /\ UNCHANGED <<aux, variant, paymentsDB, loc, admitted, sub>>

ArriveV100(r, h, logOk) ==
  /\ IsNext(r)
  /\ variant = "v100"
  /\ h.kind = "payment"
  /\ hdr' = [hdr EXCEPT ![r] = h]
  /\ MiddlewareV100(r, h.data, logOk)
  /\ UNCHANGED <<aux, variant, loc, sub>>

\* verifyPaymentWithFacilitator is entered and suspends on the facilitator
\* call
ArriveV130(r, h) ==
  /\ IsNext(r)
  /\ variant = "v130"
  /\ h.kind = "payment"
  /\ hdr' = [hdr EXCEPT ![r] = h]
  /\ pc' = [pc EXCEPT ![r] = "awaitFacilitator"]
  /\ UNCHANGED <<aux, variant, paymentsDB, loc, res, admitted, sub>>

\* ---------------------------------------------- verifyPaymentOnChain (v130)
\* bug: tx.to is compared without being lower-cased
RecipientMatchesExactCase(tx) == tx.to = toLowerCase(WALLET_ADDRESS)

\* tx.to?.toLowerCase() !== expectedRecipient.toLowerCase()
RecipientMatches(tx) == toLowerCase(tx.to) = toLowerCase(toLowerCase(WALLET_ADDRESS))

\* A return of verifyPaymentWithFacilitator itself (lines 797, 804, 808):
\* the awaiting middleware is resumed with v
ReturnVerify(r, l, v) ==
  /\ loc' = [loc EXCEPT ![r] = [l EXCEPT !.isValid = v]]
  /\ pc' = [pc EXCEPT ![r] = "verified"]

\* verifyPaymentOnChain returns v, and line 812 returns that value
ReturnOnChain(r, l, v) == ReturnVerify(r, [l EXCEPT !.chainResult = v], v)

\* Entry of verifyPaymentOnChain up to its first await.  providerOk is
\* whether constructing the JsonRpcProvider succeeds.
EnterOnChain(r, l, providerOk) ==
  LET l1 == [l EXCEPT !.onChain = TRUE]
      txHash == hdr[r].data.transactionHash
  IN IF ~providerOk \/ txHash = NoStr
     THEN ReturnOnChain(r, l1, FALSE)
     ELSE /\ loc' = [loc EXCEPT ![r] = l1]
          /\ pc' = [pc EXCEPT ![r] = "awaitTx"]

\* --------------------------------------- verifyPaymentWithFacilitator (v130)
\* bug: the catch returns false instead of calling verifyPaymentOnChain
FacilitatorThrowsNoFallback(r, providerOk) ==
  /\ pc[r] = "awaitFacilitator"
  /\ Settled
  /\ ReturnVerify(r, [loc[r] EXCEPT !.fac = "throw"], FALSE)
  /\ UNCHANGED <<aux, variant, paymentsDB, hdr, res, admitted, sub>>

\* the import or the fetch rejects: the catch calls verifyPaymentOnChain
FacilitatorThrows(r, providerOk) ==
  /\ pc[r] = "awaitFacilitator"
  /\ Settled
  /\ EnterOnChain(r, [loc[r] EXCEPT !.fac = "throw"], providerOk)
  /\ UNCHANGED <<aux, variant, paymentsDB, hdr, res, admitted, sub>>

\* the fetch resolves with an HTTP response
FacilitatorResponds(r, out) ==
  /\ pc[r] = "awaitFacilitator"
  /\ Settled
  /\ out # "throw"
  /\ out = "okVerified" => FacilitatorMayVerify(hdr[r].data)
  /\ LET l == [loc[r] EXCEPT !.fac = out]
     IN IF out = "notOk"
        THEN ReturnVerify(r, l, FALSE)
        ELSE /\ loc' = [loc EXCEPT ![r] = l]
             /\ pc' = [pc EXCEPT ![r] = "awaitJson"]
  /\ UNCHANGED <<aux, variant, paymentsDB, hdr, res, admitted, sub>>

\* await verifyResponse.json() resolves
FacilitatorBody(r) ==
  /\ pc[r] = "awaitJson"
  /\ Settled
  /\ loc[r].fac # "okBadBody"
  /\ ReturnVerify(r, loc[r], loc[r].fac = "okVerified")
  /\ UNCHANGED <<aux, variant, paymentsDB, hdr, res, admitted, sub>>

\* await verifyResponse.json() rejects: the same catch as for a failed fetch
FacilitatorBodyThrows(r, providerOk) ==
  /\ pc[r] = "awaitJson"
  /\ Settled
  /\ loc[r].fac = "okBadBody"
  /\ EnterOnChain(r, loc[r], providerOk)
  /\ UNCHANGED <<aux, variant, paymentsDB, hdr, res, admitted, sub>>

\* await provider.getTransaction(txHash) settles
GetTransaction(r, out) ==
  /\ pc[r] = "awaitTx"
  /\ Settled
  /\ LET l == [loc[r] EXCEPT !.tx = out]
     IN IF out = "found"
        THEN /\ loc' = [loc EXCEPT ![r] = l]
             /\ pc' = [pc EXCEPT ![r] = "awaitReceipt"]
        ELSE ReturnOnChain(r, l, FALSE)
  /\ UNCHANGED <<aux, variant, paymentsDB, hdr, res, admitted, sub>>

\* bug: the receipt is only tested for presence, not for status 1
GetTransactionReceiptAnyStatus(r, out) ==
  /\ pc[r] = "awaitReceipt"
  /\ Settled
  /\ LET l == [loc[r] EXCEPT !.receipt = out]
         tx == ChainTx(hdr[r].data.transactionHash)
     IN ReturnOnChain(r, l, out \in {"failed", "success"} /\ RecipientMatches(tx))
  /\ UNCHANGED <<aux, variant, paymentsDB, hdr, res, admitted, sub>>

\* await provider.getTransactionReceipt(txHash) settles; then the status
\* check and the recipient check
GetTransactionReceipt(r, out) ==
  /\ pc[r] = "awaitReceipt"
  /\ Settled
  /\ LET l == [loc[r] EXCEPT !.receipt = out]
         tx == ChainTx(hdr[r].data.transactionHash)
     IN ReturnOnChain(r, l, out = "success" /\ RecipientMatches(tx))
  /\ UNCHANGED <<aux, variant, paymentsDB, hdr, res, admitted, sub>>

\* ------------------------------------------- x402Middleware after the await
\* bug: the 403 of a failed verification is sent without return, so the
\* middleware goes on to next()
ResumeFallsThrough(r, logOk) ==
  /\ pc[r] = "verified"
  /\ IF loc[r].isValid # TRUE
     THEN /\ res' = [res EXCEPT ![r] = [status |-> 403, error |-> "Payment verification failed"]]
          /\ pc' = [pc EXCEPT ![r] = "awaitImport"]
          /\ UNCHANGED <<paymentsDB, admitted>>
     ELSE RecordAndAdmit(r, PaymentIdV130(hdr[r].data), logOk, TRUE)
  /\ loc' = [loc EXCEPT ![r] = NoLoc]
  /\ UNCHANGED <<aux, variant, hdr, sub>>

\* bug: a failed verification is answered like a missing payment, with 402
ResumeAnswers402(r, logOk) ==
  /\ pc[r] = "verified"
  /\ IF loc[r].isValid # TRUE
     THEN /\ Respond(r, 402, "Payment verification failed")
          /\ UNCHANGED <<paymentsDB, admitted>>
     ELSE RecordAndAdmit(r, PaymentIdV130(hdr[r].data), logOk, TRUE)
  /\ loc' = [loc EXCEPT ![r] = NoLoc]
  /\ UNCHANGED <<aux, variant, hdr, sub>>

\* Lines 729-764 run without suspension.  The locals of the finished
\* verification are dead once the middleware has used isValid.
Resume(r, logOk) ==
  /\ pc[r] = "verified"
  /\ IF loc[r].isValid # TRUE
     THEN /\ Respond(r, 403, "Payment verification failed")
          /\ UNCHANGED <<paymentsDB, admitted>>
     ELSE RecordAndAdmit(r, PaymentIdV130(hdr[r].data), logOk, TRUE)
  /\ loc' = [loc EXCEPT ![r] = NoLoc]
  /\ UNCHANGED <<aux, variant, hdr, sub>>

\* ----------------------------------------------- route handler: collection
\* sub[r] is the loop position of fetchRedditData: the number of the
\* subreddit whose fetch is in flight, 0 when the request has none.
\* The import resolves and fetch(url) is called for the first subreddit.
IssueFetch(r) ==
  /\ pc[r] = "awaitImport"
  /\ Settled
  /\ sub' = [sub EXCEPT ![r] = 1]
  /\ pc' = [pc EXCEPT ![r] = "awaitFeed"]
  /\ UNCHANGED <<aux, variant, paymentsDB, hdr, loc, res, admitted>>

\* The fetch settles.  A throw ends fetchRedditData with []; otherwise the
\* loop calls fetch for the next subreddit.  After the last one the handler
\* runs analyzeSentiments and sends the report, or the 500 of its catch
\* when the analysis throws.  analysisOk is an input of the last step only.
FeedResponds(r, out, analysisOk) ==
  /\ pc[r] = "awaitFeed"
  /\ Settled
  /\ (out # "throw" /\ sub[r] < NSubs) => analysisOk
  /\ IF out # "throw" /\ sub[r] < NSubs
     THEN /\ sub' = [sub EXCEPT ![r] = @ + 1]
          /\ UNCHANGED <<pc, res>>
     ELSE /\ IF analysisOk
             THEN Respond(r, 200, Null)
             ELSE Respond(r, 500, "Analysis failed")
          /\ sub' = [sub EXCEPT ![r] = 0]
  /\ UNCHANGED <<aux, variant, paymentsDB, hdr, loc, admitted>>

\* The client of a request closes its connection while the handler collects.
\* Neither the middleware nor the handler listens for it: the loop goes on
\* and the response is written to the closed socket.
ClientDisconnects(r) ==
  /\ pc[r] \in {"awaitImport", "awaitFeed"}
  /\ Settled
  /\ r \notin closed
  /\ closed' = closed \cup {r}
  /\ UNCHANGED <<variant, paymentsDB, pc, hdr, loc, res, admitted, sub, paymentLog, col, eng>>

Next ==
  \/ \E r \in Reqs, h \in Headers : ArriveWithoutPayment(r, h)
  \/ \E r \in Reqs, h \in Headers, logOk \in BOOLEAN : ArriveV100(r, h, logOk)
  \/ \E r \in Reqs, h \in Headers : ArriveV130(r, h)
  \/ \E r \in Reqs, providerOk \in BOOLEAN : FacilitatorThrows(r, providerOk)
  \/ \E r \in Reqs, out \in FacilitatorOutcomes : FacilitatorResponds(r, out)
  \/ \E r \in Reqs : FacilitatorBody(r)
  \/ \E r \in Reqs, providerOk \in BOOLEAN : FacilitatorBodyThrows(r, providerOk)
  \/ \E r \in Reqs, out \in TxOutcomes : GetTransaction(r, out)
  \/ \E r \in Reqs, out \in ReceiptOutcomes : GetTransactionReceipt(r, out)
  \/ \E r \in Reqs, logOk \in BOOLEAN : Resume(r, logOk)
  \/ \E r \in Reqs : IssueFetch(r)
  \/ \E r \in Reqs, out \in FeedOutcomes, analysisOk \in BOOLEAN :
        FeedResponds(r, out, analysisOk)

Spec == Init /\ [][Next]_vars

\* The same server when its callers present one payment in several
\* encodings and a payment whose signature starts like that of another.
NextReplay ==
  \/ \E r \in Reqs, h \in HeadersReplay, logOk \in BOOLEAN : ArriveV100(r, h, logOk)
  \/ \E r \in Reqs, h \in HeadersReplay : ArriveV130(r, h)
  \/ \E r \in Reqs, providerOk \in BOOLEAN : FacilitatorThrows(r, providerOk)
  \/ \E r \in Reqs, out \in FacilitatorOutcomes : FacilitatorResponds(r, out)
  \/ \E r \in Reqs : FacilitatorBody(r)
  \/ \E r \in Reqs, providerOk \in BOOLEAN : FacilitatorBodyThrows(r, providerOk)
  \/ \E r \in Reqs, out \in TxOutcomes : GetTransaction(r, out)
  \/ \E r \in Reqs, out \in ReceiptOutcomes : GetTransactionReceipt(r, out)
  \/ \E r \in Reqs, logOk \in BOOLEAN : Resume(r, logOk)
  \/ \E r \in Reqs : IssueFetch(r)
  \/ \E r \in Reqs, out \in FeedOutcomes, analysisOk \in BOOLEAN :
        FeedResponds(r, out, analysisOk)

SpecReplay == Init /\ [][NextReplay]_vars

\* The same server when its callers present no header, an undecodable
\* header, an assertion that is not well-formed, or P1.
NextMalformed ==
  \/ \E r \in Reqs, h \in HeadersMalformed : ArriveWithoutPayment(r, h)
  \/ \E r \in Reqs, h \in HeadersMalformed, logOk \in BOOLEAN : ArriveV100(r, h, logOk)
  \/ \E r \in Reqs, h \in HeadersMalformed : ArriveV130(r, h)
  \/ \E r \in Reqs, providerOk \in BOOLEAN : FacilitatorThrows(r, providerOk)
  \/ \E r \in Reqs, out \in FacilitatorOutcomes : FacilitatorResponds(r, out)
  \/ \E r \in Reqs : FacilitatorBody(r)
  \/ \E r \in Reqs, providerOk \in BOOLEAN : FacilitatorBodyThrows(r, providerOk)
  \/ \E r \in Reqs, out \in TxOutcomes : GetTransaction(r, out)
  \/ \E r \in Reqs, out \in ReceiptOutcomes : GetTransactionReceipt(r, out)
  \/ \E r \in Reqs, logOk \in BOOLEAN : Resume(r, logOk)
  \/ \E r \in Reqs : IssueFetch(r)
  \/ \E r \in Reqs, out \in FeedOutcomes, analysisOk \in BOOLEAN :
        FeedResponds(r, out, analysisOk)

SpecMalformed == Init /\ [][NextMalformed]_vars

\* The same server with clients that may close the connection during the
\* collection; its callers present no header, an undecodable header, P1 or
\* P4.
HeadersClosing == {NoHeader, Malformed, [kind |-> "payment", data |-> P1],
                   [kind |-> "payment", data |-> P4]}

NextClosing ==
  \/ \E r \in Reqs, h \in HeadersClosing : ArriveWithoutPayment(r, h)
  \/ \E r \in Reqs, h \in HeadersClosing, logOk \in BOOLEAN : ArriveV100(r, h, logOk)
  \/ \E r \in Reqs, h \in HeadersClosing : ArriveV130(r, h)
  \/ \E r \in Reqs, providerOk \in BOOLEAN : FacilitatorThrows(r, providerOk)
  \/ \E r \in Reqs, out \in FacilitatorOutcomes : FacilitatorResponds(r, out)
  \/ \E r \in Reqs : FacilitatorBody(r)
  \/ \E r \in Reqs, providerOk \in BOOLEAN : FacilitatorBodyThrows(r, providerOk)
  \/ \E r \in Reqs, out \in TxOutcomes : GetTransaction(r, out)
  \/ \E r \in Reqs, out \in ReceiptOutcomes : GetTransactionReceipt(r, out)
  \/ \E r \in Reqs, logOk \in BOOLEAN : Resume(r, logOk)
  \/ \E r \in Reqs : IssueFetch(r)
  \/ \E r \in Reqs, out \in FeedOutcomes, analysisOk \in BOOLEAN :
        FeedResponds(r, out, analysisOk)
  \/ \E r \in Reqs : ClientDisconnects(r)

SpecClosing == Init /\ [][NextClosing]_vars

\* ------------------------------------------------------ x402 v2 server
\* src/sentiment-api.js 1-665: the route is guarded by paymentMiddleware of
\* the x402 SDK, and the handler keeps its own payment log.
NSubsV210 == 2

InitV210 ==
  /\ variant = "v210"
  /\ paymentsDB = << >>
  /\ pc = [r \in Reqs |-> "new"]
  /\ hdr = [r \in Reqs |-> NoHeader]
  /\ loc = [r \in Reqs |-> NoLoc]
  /\ res = [r \in Reqs |-> NoRes]
  /\ admitted = [r \in Reqs |-> FALSE]
  /\ sub = [r \in Reqs |-> 0]
  /\ closed = {}
  /\ paymentLog = << >>
  /\ col = NoCall
  /\ eng = NoCall

\* paymentMiddleware answers 402 itself or calls next(); sdkOk is its
\* verdict on the payment.  next() runs the handler up to the first fetch
\* of fetchRedditPosts.
ArriveV210(r, h, sdkOk) ==
  /\ IsNext(r)
  /\ variant = "v210"
  /\ sdkOk => h.kind = "payment" /\ FacilitatorMayVerify(h.data)
  /\ hdr' = [hdr EXCEPT ![r] = h]
  /\ IF sdkOk
     THEN /\ admitted' = [admitted EXCEPT ![r] = TRUE]
          /\ sub' = [sub EXCEPT ![r] = 1]
          /\ pc' = [pc EXCEPT ![r] = "awaitFeed"]
          /\ UNCHANGED res
     ELSE /\ Respond(r, 402, Null)
          /\ UNCHANGED <<admitted, sub>>
  /\ UNCHANGED <<variant, paymentsDB, loc, closed, paymentLog, col, eng>>

\* End of fetchRedditPosts and the rest of the handler: the analysis, then
\* paymentLog.push and the report; a throw of the analysis goes to the catch
\* of the handler, past the push.
FinishV210(r, analysisOk) ==
  /\ sub' = [sub EXCEPT ![r] = 0]
  /\ IF analysisOk
     THEN /\ paymentLog' = Append(paymentLog, [amount |-> Price])
          /\ Respond(r, 200, Null)
     ELSE /\ Respond(r, 500, "Failed to analyze sentiment")
          /\ UNCHANGED paymentLog

\* The fetch of a subreddit settles.  !response.ok continues with the next
\* subreddit at once; a response that is read, or a throw that the empty
\* catch swallows, is followed by the 500 ms sleep.
FeedRespondsV210(r, out, analysisOk) ==
  /\ variant = "v210"
  /\ pc[r] = "awaitFeed"
  /\ IF out # "notOk"
     THEN /\ pc' = [pc EXCEPT ![r] = "awaitSleep"]
          /\ UNCHANGED <<res, sub, paymentLog>>
     ELSE IF sub[r] < NSubsV210
     THEN /\ sub' = [sub EXCEPT ![r] = @ + 1]
          /\ UNCHANGED <<pc, res, paymentLog>>
     ELSE FinishV210(r, analysisOk)
  /\ UNCHANGED <<variant, paymentsDB, hdr, loc, admitted, closed, col, eng>>

\* The sleep ends: the next fetch is issued, or the loop is over.
SleepEndsV210(r, analysisOk) ==
  /\ variant = "v210"
  /\ pc[r] = "awaitSleep"
  /\ IF sub[r] < NSubsV210
     THEN /\ sub' = [sub EXCEPT ![r] = @ + 1]
          /\ pc' = [pc EXCEPT ![r] = "awaitFeed"]
          /\ UNCHANGED <<res, paymentLog>>
     ELSE FinishV210(r, analysisOk)
  /\ UNCHANGED <<variant, paymentsDB, hdr, loc, admitted, closed, col, eng>>

NextV210 ==
  \/ \E r \in Reqs, h \in Headers, sdkOk \in BOOLEAN : ArriveV210(r, h, sdkOk)
  \/ \E r \in Reqs, out \in FeedOutcomes, analysisOk \in BOOLEAN :
        FeedRespondsV210(r, out, analysisOk)
  \/ \E r \in Reqs, analysisOk \in BOOLEAN : SleepEndsV210(r, analysisOk)

SpecV210 == InitV210 /\ [][NextV210]_vars

\* ------------------------------------------ source collector (part_004)
\* getSentiment queries the subreddits of the coin and then searches twice;
\* fetchSubreddit and searchReddit try their urls in turn.  col holds the
\* locals of one getSentiment call: the number of subreddits of the coin,
\* the feed and the url being queried, allPosts, the number of returns of
\* fetchSubreddit and searchReddit so far and the value last returned, and
\* for the running fetchSubreddit or searchReddit call the number of 429
\* answers it has received and of 2 s waits it has started.
Titles == {"a", "b"}
Listings == {<<"a">>, <<"a", "b">>, <<"b">>}

FetchOutcomes == {"networkError", "timeout", "status429", "notOk", "ok"}
Bodies == {"notJson", "noChildren", "empty", "badChild", "posts"}

gateway == <<variant, paymentsDB, pc, hdr, loc, res, admitted, sub, closed, paymentLog, eng>>

InitCollector ==
  /\ variant = "part_004"
  /\ paymentsDB = << >>
  /\ pc = [r \in Reqs |-> "new"]
  /\ hdr = [r \in Reqs |-> NoHeader]
  /\ loc = [r \in Reqs |-> NoLoc]
  /\ res = [r \in Reqs |-> NoRes]
  /\ admitted = [r \in Reqs |-> FALSE]
  /\ sub = [r \in Reqs |-> 0]
  /\ closed = {}
  /\ paymentLog = << >>
  /\ col = NoCall
  /\ eng = NoCall

IsSubreddit(c) == c.feed <= c.nsubs

UrlCount(c) == IF IsSubreddit(c) THEN NSubredditUrls ELSE NSearchUrls

\* fetchSubreddit or searchReddit returns posts to getSentiment (lines
\* 984-999): the posts are appended, and the loop goes to the next feed,
\* after a sleep unless a subreddit follows and allPosts is still empty.
Return(c, posts) ==
  LET c1 == [c EXCEPT !.allPosts = @ \o posts, !.calls = @ + 1, !.last = posts,
                       !.n429 = 0, !.waits = 0]
  IN IF c.feed = c.nsubs + NSearches
     THEN [c1 EXCEPT !.pc = "done"]
     ELSE IF c.feed < c.nsubs /\ Len(c1.allPosts) = 0
     THEN [c1 EXCEPT !.feed = @ + 1, !.url = 1, !.pc = "fetch"]
     ELSE [c1 EXCEPT !.feed = @ + 1, !.url = 1, !.pc = "sleep"]

\* continue, or the end of the catch block: the next url of the feed, or
\* return [] after the last one
NextUrl(c) ==
  IF c.url < UrlCount(c)
  THEN [c EXCEPT !.url = @ + 1, !.pc = "fetch"]
  ELSE Return(c, << >>)

\* getSentiment(coin) is called for a coin with n subreddits and suspends
\* on the first fetch
getSentiment(n) ==
  /\ col = NoCall
  /\ col' = [pc |-> "fetch", nsubs |-> n, feed |-> 1, url |-> 1,
             allPosts |-> << >>, calls |-> 0, last |-> << >>,
             n429 |-> 0, waits |-> 0]
  /\ UNCHANGED gateway

\* the 500 ms sleep between two feeds ends
SleepEnds ==
  /\ col.pc = "sleep"
  /\ col' = [col EXCEPT !.pc = "fetch"]
  /\ UNCHANGED gateway

\* bug: the fetch is outside the try, so a network error or a timeout
\* leaves fetchSubreddit and getSentiment as a rejection
FetchSettlesUncaught(out) ==
  /\ col.pc = "fetch"
  /\ col' = CASE out \in {"networkError", "timeout"} -> [col EXCEPT !.pc = "thrown"]
              [] out = "status429" ->
                   IF IsSubreddit(col)
                   THEN [col EXCEPT !.pc = "wait429", !.n429 = @ + 1, !.waits = @ + 1]
                   ELSE NextUrl([col EXCEPT !.n429 = @ + 1])
              [] out = "notOk" -> NextUrl(col)
              [] out = "ok" -> [col EXCEPT !.pc = "json"]
  /\ UNCHANGED gateway

\* await fetch(url) settles: a rejection (network error, or AbortError of
\* the 10 s timer) is caught; 429 makes fetchSubreddit wait 2 s and is a
\* plain !response.ok for searchReddit; any other non-2xx continues
FetchSettles(out) ==
  /\ col.pc = "fetch"
  /\ col' = CASE out \in {"networkError", "timeout"} -> NextUrl(col)
              [] out = "status429" ->
                   IF IsSubreddit(col)
                   THEN [col EXCEPT !.pc = "wait429", !.n429 = @ + 1, !.waits = @ + 1]
                   ELSE NextUrl([col EXCEPT !.n429 = @ + 1])
              [] out = "notOk" -> NextUrl(col)
              [] out = "ok" -> [col EXCEPT !.pc = "json"]
  /\ UNCHANGED gateway

\* the 2 s wait after a 429 ends
RateLimitWaitEnds ==
  /\ col.pc = "wait429"
  /\ col' = NextUrl(col)
  /\ UNCHANGED gateway

\* await response.json() settles.  A body that is not JSON and a child
\* without data throw into the catch; a body without data.children
\* continues; a listing without posts falls out of the try; a listing with
\* posts is returned.
BodySettles(body, listing) ==
  /\ col.pc = "json"
  /\ col' = IF body = "posts" THEN Return(col, listing) ELSE NextUrl(col)
  /\ UNCHANGED gateway

NextCollector ==
  \/ \E n \in 1..MaxSubs : getSentiment(n)
  \/ SleepEnds
  \/ \E out \in FetchOutcomes : FetchSettles(out)
  \/ RateLimitWaitEnds
  \/ \E body \in Bodies, listing \in Listings : BodySettles(body, listing)

SpecCollector == InitCollector /\ [][NextCollector]_vars

\* What the timers of the collector guarantee.  The 500 ms and 2 s timers
\* fire; the fetch promise settles, if by nothing else then by the abort of
\* its 10 s timer (lines 135-141, 199-205).  clearTimeout (lines 143, 207)
\* runs before response.json(), so nothing bounds the reading of the body.
FairCollector ==
  /\ WF_vars(SleepEnds)
  /\ WF_vars(RateLimitWaitEnds)
  /\ WF_vars(\E out \in FetchOutcomes : FetchSettles(out))

SpecCollectorLive == InitCollector /\ [][NextCollector]_vars /\ FairCollector

\* ------------------------------ deduplication and aggregation (part_004)
\* The end of getSentiment, after the last feed has returned: allPosts is
\* deduplicated by title, analysed by analyzeWithVader and the report is
\* built.  The same code ends the route of part_002, which has no branch for
\* an empty list.  A post carries, besides its fields, the compound polarity
\* that the VADER scorer gives to its text, in thousandths.
MaxPosts == 3
KeyLen == 50
TitleLen == 120
TopCount == 5
SampleFull == 30

BTC == <<"B", "T", "C">>
PEPE == <<"P", "E", "P", "E">>
Coins == {BTC, PEPE}

COIN_NAMES == [c \in Coins |-> IF c = BTC THEN <<"B", "i", "t", "c", "o", "i", "n">>
                                         ELSE NoStr]

LongA == Rep("a", KeyLen) \o <<"1">>
LongAUpper == Rep("A", KeyLen) \o <<"2">>
ShortA == Rep("a", KeyLen - 1)

Post(t, b, s, n, c) ==
  [title |-> t, selftext |-> b, score |-> s, numComments |-> n, compound |-> c]

Posts ==
  { Post(<<"b", "t", "c">>, NoStr, 100, 10, 500),
    Post(<<"B", "T", "C">>, NoStr, 1, 0, 0),
    Post(<<"x">>, <<"B", "i", "t", "c", "o", "i", "n">>, 0, 0, 0 - 1000),
    Post(LongA, NoStr, 0 - 5, 0, 1000),
    Post(LongAUpper, NoStr, 10, 1, 0 - 150),
    Post(ShortA, NoStr, 1, 0, 150),
    Post(<<"p", "e", "p", "e">>, NoStr, 10, 0, 0 - 500),
    Post(<<"x">>, <<"o">>, 100, 10, 49) }

RECURSIVE ListsUpTo(_, _)
ListsUpTo(S, n) ==
  IF n = 0 THEN {<< >>}
  ELSE LET shorter == ListsUpTo(S, n - 1)
       IN shorter \cup {Append(l, x) : l \in shorter, x \in S}

InitEngine ==
  /\ variant \in {"part_004", "part_002"}
  /\ paymentsDB = << >>
  /\ pc = [r \in Reqs |-> "new"]
  /\ hdr = [r \in Reqs |-> NoHeader]
  /\ loc = [r \in Reqs |-> NoLoc]
  /\ res = [r \in Reqs |-> NoRes]
  /\ admitted = [r \in Reqs |-> FALSE]
  /\ sub = [r \in Reqs |-> 0]
  /\ closed = {}
  /\ paymentLog = << >>
  /\ col = NoCall
  /\ \E coin \in Coins, allPosts \in ListsUpTo(Posts, MaxPosts) :
       eng = [pc |-> "collected", coin |-> coin, allPosts |-> allPosts]

\* the key of the filter: post.title.toLowerCase().substring(0, 50)
Key(post) == slice(toLowerCase(post.title), KeyLen)

\* bug: a second occurrence is dropped and its key forgotten, so a third
\* occurrence is kept
RECURSIVE filterForgetful(_, _)
filterForgetful(posts, seen) ==
  IF posts = << >> THEN << >>
  ELSE IF Key(Head(posts)) \in seen
       THEN filterForgetful(Tail(posts), seen \ {Key(Head(posts))})
       ELSE <<Head(posts)>> \o filterForgetful(Tail(posts), seen \cup {Key(Head(posts))})

dedupeForgetful(posts) == filterForgetful(posts, {})

\* bug: the key is the title itself
RECURSIVE filterExact(_, _)
filterExact(posts, seen) ==
  IF posts = << >> THEN << >>
  ELSE IF Head(posts).title \in seen
       THEN filterExact(Tail(posts), seen)
       ELSE <<Head(posts)>> \o filterExact(Tail(posts), seen \cup {Head(posts).title})

dedupeExact(posts) == filterExact(posts, {})

\* allPosts.filter with the set seen
RECURSIVE filterSeen(_, _)
filterSeen(posts, seen) ==
  IF posts = << >> THEN << >>
  ELSE IF Key(Head(posts)) \in seen
       THEN filterSeen(Tail(posts), seen)
       ELSE <<Head(posts)>> \o filterSeen(Tail(posts), seen \cup {Key(Head(posts))})

dedupe(posts) == filterSeen(posts, {})

\* COIN_NAMES[coin] || coin
CoinName(coin) == IF COIN_NAMES[coin] # NoStr THEN COIN_NAMES[coin] ELSE coin

\* `${post.title} ${post.selftext}`
Text(post) == post.title \o <<" ">> \o post.selftext

\* bug: the text is not upper-cased
isRelevantCaseSensitive(post, coin) ==
  \/ includes(Text(post), coin)
  \/ includes(Text(post), toUpperCase(CoinName(coin)))

isRelevant(post, coin) ==
  \/ includes(toUpperCase(Text(post)), coin)
  \/ includes(toUpperCase(Text(post)), toUpperCase(CoinName(coin)))

relevantPosts(posts, coin) == SelectSeq(posts, LAMBDA post : isRelevant(post, coin))

postsToAnalyze(posts, coin) ==
  IF Len(relevantPosts(posts, coin)) > 0 THEN relevantPosts(posts, coin) ELSE posts

Max(a, b) == IF a >= b THEN a ELSE b
Min(a, b) == IF a <= b THEN a ELSE b

\* Math.log10 in thousandths, rounded down, on the arguments that the posts
\* give
Log10(n) ==
  CASE n = 1 -> 0
    [] n = 2 -> 301
    [] n = 3 -> 477
    [] n = 11 -> 1041
    [] n = 12 -> 1079
    [] n = 111 -> 2045

\* bug: score and numComments are not raised to 1 before they are added
engagementUnfloored(post) == Log10(Max(post.score + post.numComments + 1, 1))

\* Math.log10(Math.max(post.score, 1) + Math.max(post.numComments, 1) + 1)
engagement(post) == Log10(Max(post.score, 1) + Max(post.numComments, 1) + 1)

\* the sums of the loop over postsToAnalyze
RECURSIVE totalScore(_)
totalScore(posts) ==
  IF posts = << >> THEN 0
  ELSE Head(posts).compound * engagement(Head(posts)) + totalScore(Tail(posts))

RECURSIVE totalWeight(_)
totalWeight(posts) ==
  IF posts = << >> THEN 0
  ELSE engagement(Head(posts)) + totalWeight(Tail(posts))

\* bug: neutral is counted by its own test, compound > -0.05, and not in
\* the else branch
BreakdownOverlapping(posts) ==
  [positive |-> Len(SelectSeq(posts, LAMBDA post : post.compound >= 50)),
   negative |-> Len(SelectSeq(posts, LAMBDA post :
                       post.compound < 50 /\ post.compound <= 0 - 50)),
   neutral |-> Len(SelectSeq(posts, LAMBDA post : post.compound > 0 - 50))]

\* the counters of the loop: compound >= 0.05, else <= -0.05, else neutral
Breakdown(posts) ==
  [positive |-> Len(SelectSeq(posts, LAMBDA post : post.compound >= 50)),
   negative |-> Len(SelectSeq(posts, LAMBDA post :
                       post.compound < 50 /\ post.compound <= 0 - 50)),
   neutral |-> Len(SelectSeq(posts, LAMBDA post :
                      post.compound < 50 /\ post.compound > 0 - 50))]

\* A number that the code divides out is the fraction n / d, d > 0.  Scores
\* are in thousandths.
Frac(n, d) == [n |-> n, d |-> d]

\* totalWeight > 0 ? totalScore / totalWeight : 0, then
\* Math.max(-1, Math.min(1, avgScore))
normalizedScore(posts) ==
  LET avgScore == IF totalWeight(posts) > 0
                  THEN Frac(totalScore(posts), totalWeight(posts))
                  ELSE Frac(0, 1)
  IN IF avgScore.n > 1000 * avgScore.d THEN Frac(1000, 1)
     ELSE IF avgScore.n < (0 - 1000) * avgScore.d THEN Frac(0 - 1000, 1)
     ELSE avgScore

\* bug: the comparisons are strict
sentimentLabelStrict(score) ==
  IF score.n > 500 * score.d THEN "very bullish"
  ELSE IF score.n > 150 * score.d THEN "bullish"
  ELSE IF score.n < (0 - 500) * score.d THEN "very bearish"
  ELSE IF score.n < (0 - 150) * score.d THEN "bearish"
  ELSE "neutral"

sentimentLabel(score) ==
  IF score.n >= 500 * score.d THEN "very bullish"
  ELSE IF score.n >= 150 * score.d THEN "bullish"
  ELSE IF score.n <= (0 - 500) * score.d THEN "very bearish"
  ELSE IF score.n <= (0 - 150) * score.d THEN "bearish"
  ELSE "neutral"

Total(b) == b.positive + b.negative + b.neutral
MaxCategory(b) == Max(b.positive, Max(b.negative, b.neutral))

\* bug: the confidence of the older analyzeSentiment,
\* min(agreement * 0.7 + min(total / 50, 1) * 0.3, 0.95)
ConfidenceOfAnalyzeSentiment(b) ==
  LET total == Total(b)
      raw == IF total > 0
             THEN Frac(7 * 50 * MaxCategory(b) + 3 * Min(total, 50) * total, 500 * total)
             ELSE Frac(0, 1)
  IN IF 20 * raw.n > 19 * raw.d THEN Frac(19, 20) ELSE raw

\* agreement * 0.75 + Math.min(total / 30, 1) * 0.25, capped at 0.95; with
\* agreement = maxCategory / total the sum is
\* (90 maxCategory + min(total, 30) total) / (120 total)
Confidence(b) ==
  LET total == Total(b)
      raw == IF total > 0
             THEN Frac(3 * SampleFull * MaxCategory(b) + Min(total, SampleFull) * total,
                       4 * SampleFull * total)
             ELSE Frac(0, 1)
  IN IF 20 * raw.n > 19 * raw.d THEN Frac(19, 20) ELSE raw

\* Number.prototype.toFixed(k) followed by parseFloat: the nearest multiple
\* of 1 / unit, halves away from zero; the result counts units
Rounded(f, unit) ==
  IF f.n >= 0 THEN (2 * unit * f.n + f.d) \div (2 * f.d)
  ELSE 0 - ((2 * unit * (0 - f.n) + f.d) \div (2 * f.d))

\* Array.prototype.sort with (a, b) => b.engagement - a.engagement, stable
RECURSIVE sortByEngagement(_)
sortByEngagement(ps) ==
  IF ps = << >> THEN << >>
  ELSE LET rest == sortByEngagement(Tail(ps))
           x == Head(ps)
           before == SelectSeq(rest, LAMBDA y : y.engagement > x.engagement)
           after == SelectSeq(rest, LAMBDA y : y.engagement <= x.engagement)
       IN before \o <<x>> \o after

analyzedPost(post) ==
  [title |-> slice(post.title, TitleLen), score |-> post.compound,
   engagement |-> post.score]

analyzedPosts(posts) == [i \in DOMAIN posts |-> analyzedPost(posts[i])]

\* bug: the list is cut without being sorted, as in analyzeSentiment
topPostsUnsorted(posts) == slice(analyzedPosts(posts), TopCount)

\* analyzedPosts.sort(...) and analyzedPosts.slice(0, 5)
topPosts(posts) == slice(sortByEngagement(analyzedPosts(posts)), TopCount)

\* analyzeWithVader(posts, coin).  score counts thousandths and confidence
\* hundredths, as toFixed(3) and toFixed(2) leave them; normalizedScore and
\* exactConfidence are the values of the locals before the rounding.
analyzeWithVader(posts, coin) ==
  IF Len(posts) = 0
  THEN [sentiment |-> "neutral", score |-> 0, confidence |-> 0, postsAnalyzed |-> 0,
        breakdown |-> [positive |-> 0, negative |-> 0, neutral |-> 0],
        topPosts |-> << >>,
        analysed |-> << >>, normalizedScore |-> Frac(0, 1),
        exactConfidence |-> Frac(0, 1)]
  ELSE LET toAnalyze == postsToAnalyze(posts, coin)
       IN [sentiment |-> sentimentLabel(normalizedScore(toAnalyze)),
           score |-> Rounded(normalizedScore(toAnalyze), 1),
           confidence |-> Rounded(Confidence(Breakdown(toAnalyze)), 100),
           postsAnalyzed |-> Len(toAnalyze),
           breakdown |-> Breakdown(toAnalyze),
           topPosts |-> topPosts(toAnalyze),
           analysed |-> toAnalyze,
           normalizedScore |-> normalizedScore(toAnalyze),
           exactConfidence |-> Confidence(Breakdown(toAnalyze))]

\* A number of the report that may be null is a tuple, empty for null.
NullNumber == << >>
Number(v) == <<v>>

\* the report of part_004 when no post was found (lines 1013-1036)
Unavailable ==
  [signal |-> "UNAVAILABLE", score |-> NullNumber, confidence |-> NullNumber,
   postsAnalyzed |-> 0, positiveCount |-> 0, neutralCount |-> 0,
   negativeCount |-> 0, topPosts |-> << >>]

\* analysis.sentiment.toUpperCase().replace(' ', '_')
Signal(sentiment) ==
  CASE sentiment = "very bullish" -> "VERY_BULLISH"
    [] sentiment = "bullish" -> "BULLISH"
    [] sentiment = "neutral" -> "NEUTRAL"
    [] sentiment = "bearish" -> "BEARISH"
    [] sentiment = "very bearish" -> "VERY_BEARISH"

\* the report built from the analysis: lines 1053-1087 of part_004, where
\* the label is upper-cased, and lines 1675-1695 of part_002
Response(analysis) ==
  [signal |-> IF variant = "part_004" THEN Signal(analysis.sentiment)
              ELSE analysis.sentiment,
   score |-> Number(analysis.score), confidence |-> Number(analysis.confidence),
   postsAnalyzed |-> analysis.postsAnalyzed,
   positiveCount |-> analysis.breakdown.positive,
   neutralCount |-> analysis.breakdown.neutral,
   negativeCount |-> analysis.breakdown.negative,
   topPosts |-> analysis.topPosts]

\* The last feed has returned: the rest of getSentiment runs to its return.
Aggregate ==
  /\ eng.pc = "collected"
  /\ LET unique == dedupe(eng.allPosts)
         analysis == analyzeWithVader(unique, eng.coin)
     IN eng' = [pc |-> "done", coin |-> eng.coin, allPosts |-> eng.allPosts,
                unique |-> unique, analysis |-> analysis,
                response |-> IF variant = "part_004" /\ Len(unique) = 0
                             THEN Unavailable
                             ELSE Response(analysis)]
  /\ UNCHANGED <<variant, paymentsDB, pc, hdr, loc, res, admitted, sub,
                 closed, paymentLog, col>>

NextEngine == Aggregate

SpecEngine == InitEngine /\ [][NextEngine]_vars

\* The confidence is a function of the breakdown alone.  Its cap needs more
\* posts than a list of MaxPosts holds, so the end of analyzeWithVader is
\* also run from every breakdown that the loop over postsToAnalyze can leave
\* (line 292), with counts up to MaxCount.
MaxCount == 30

InitConfidence ==
  /\ variant = "part_004"
  /\ paymentsDB = << >>
  /\ pc = [r \in Reqs |-> "new"]
  /\ hdr = [r \in Reqs |-> NoHeader]
  /\ loc = [r \in Reqs |-> NoLoc]
  /\ res = [r \in Reqs |-> NoRes]
  /\ admitted = [r \in Reqs |-> FALSE]
  /\ sub = [r \in Reqs |-> 0]
  /\ closed = {}
  /\ paymentLog = << >>
  /\ col = NoCall
  /\ \E p \in 0..MaxCount, n \in 0..MaxCount, u \in 0..MaxCount :
       /\ p + n + u > 0
       /\ eng = [pc |-> "counted",
                 breakdown |-> [positive |-> p, negative |-> n, neutral |-> u]]

\* lines 306-311 and 319: the confidence and its rounding in the report
Conclude ==
  /\ eng.pc = "counted"
  /\ eng' = [pc |-> "rated", breakdown |-> eng.breakdown,
             exactConfidence |-> Confidence(eng.breakdown),
             confidence |-> Rounded(Confidence(eng.breakdown), 100)]
  /\ UNCHANGED <<variant, paymentsDB, pc, hdr, loc, res, admitted, sub,
                 closed, paymentLog, col>>

NextConfidence == Conclude

SpecConfidence == InitConfidence /\ [][NextConfidence]_vars

\* The five top posts need more posts than a list of MaxPosts holds:
\* analyzeWithVader is also called on the lists of up to MaxRank posts over
\* four posts of the catalog, two of them with the same score.
MaxRank == 6

RankPosts == {post \in Posts : post.score \in {0 - 5, 10, 100} /\ post.selftext = NoStr}

InitRanking ==
  /\ variant = "part_004"
  /\ paymentsDB = << >>
  /\ pc = [r \in Reqs |-> "new"]
  /\ hdr = [r \in Reqs |-> NoHeader]
  /\ loc = [r \in Reqs |-> NoLoc]
  /\ res = [r \in Reqs |-> NoRes]
  /\ admitted = [r \in Reqs |-> FALSE]
  /\ sub = [r \in Reqs |-> 0]
  /\ closed = {}
  /\ paymentLog = << >>
  /\ col = NoCall
  /\ \E posts \in ListsUpTo(RankPosts, MaxRank) :
       eng = [pc |-> "called", coin |-> PEPE, posts |-> posts]

\* analyzeWithVader(posts, coin) returns
Analyze ==
  /\ eng.pc = "called"
  /\ eng' = [pc |-> "analysed", coin |-> eng.coin, posts |-> eng.posts,
             analysis |-> analyzeWithVader(eng.posts, eng.coin)]
  /\ UNCHANGED <<variant, paymentsDB, pc, hdr, loc, res, admitted, sub,
                 closed, paymentLog, col>>

SpecRanking == InitRanking /\ [][Analyze]_vars

\* ------------------------------------------- scores next to a band edge
\* analyzeWithVader on lists of up to MaxMix posts that mention BTC, with
\* compounds at and just under 0.5 and 0.15 and weights log10(111) and
\* log10(3), so that weighted averages fall between an edge and the nearest
\* lower multiple of 0.001.
MaxMix == 3

EdgePosts ==
  { Post(<<"b", "t", "c">>, NoStr, 100, 10, 500),
    Post(<<"b", "t", "c">>, NoStr, 1, 0, 499),
    Post(<<"b", "t", "c">>, NoStr, 100, 10, 150),
    Post(<<"b", "t", "c">>, NoStr, 1, 0, 149),
    Post(<<"B", "T", "C">>, NoStr, 1, 0, 0) }

InitRounding ==
  /\ variant = "part_004"
  /\ paymentsDB = << >>
  /\ pc = [r \in Reqs |-> "new"]
  /\ hdr = [r \in Reqs |-> NoHeader]
  /\ loc = [r \in Reqs |-> NoLoc]
  /\ res = [r \in Reqs |-> NoRes]
  /\ admitted = [r \in Reqs |-> FALSE]
  /\ sub = [r \in Reqs |-> 0]
  /\ closed = {}
  /\ paymentLog = << >>
  /\ col = NoCall
  /\ \E posts \in ListsUpTo(EdgePosts, MaxMix) :
       eng = [pc |-> "called", coin |-> BTC, posts |-> posts]

SpecRounding == InitRounding /\ [][Analyze]_vars

\* ---------------------------------- route of the v1.3.0 server, in detail
\* The handler of GET /v1/sentiment/:coin for one admitted request, with the
\* mentions that fetchRedditData collects: eng holds the subreddit being
\* fetched and the compound polarities (in thousandths) of the mentions
\* pushed so far.  delivered and failed are not state of the program: they
\* count the mentions that the listings read so far contained and the
\* queries that failed.
MaxFound == 1

InitV1Route ==
  /\ variant = "v130"
  /\ paymentsDB = << >>
  /\ pc = [r \in Reqs |-> "new"]
  /\ hdr = [r \in Reqs |-> NoHeader]
  /\ loc = [r \in Reqs |-> NoLoc]
  /\ res = [r \in Reqs |-> NoRes]
  /\ admitted = [r \in Reqs |-> FALSE]
  /\ sub = [r \in Reqs |-> 0]
  /\ closed = {}
  /\ paymentLog = << >>
  /\ col = NoCall
  /\ eng = [pc |-> "fetch", sub |-> 1, mentions |-> << >>, delivered |-> 0, failed |-> 0]

RECURSIVE SumSeq(_)
SumSeq(q) == IF q = << >> THEN 0 ELSE Head(q) + SumSeq(Tail(q))

\* Math.round((k / count) * 100)
RoundPercent(k, count) == (200 * k + count) \div (2 * count)

\* analyzeSentiments(texts), texts given by their compound polarities
analyzeSentiments(texts) ==
  IF Len(texts) = 0
  THEN [vaderAvg |-> Frac(0, 1), positive |-> 33, negative |-> 33, neutral |-> 34,
        totalMentions |-> 0]
  ELSE LET count == Len(texts)
           positive == Len(SelectSeq(texts, LAMBDA c : c > 50))
           negative == Len(SelectSeq(texts, LAMBDA c : c <= 50 /\ c < 0 - 50))
           neutral == Len(SelectSeq(texts, LAMBDA c : c <= 50 /\ c >= 0 - 50))
       IN [vaderAvg |-> Frac(SumSeq(texts), count),
           positive |-> RoundPercent(positive, count),
           negative |-> RoundPercent(negative, count),
           neutral |-> RoundPercent(neutral, count),
           totalMentions |-> count]

\* bug: the thresholds are inclusive
signalInclusive(compositeScore) ==
  IF compositeScore.n >= 150 * compositeScore.d THEN "STRONG BUY"
  ELSE IF compositeScore.n >= 50 * compositeScore.d THEN "BUY"
  ELSE IF compositeScore.n <= (0 - 150) * compositeScore.d THEN "STRONG SELL"
  ELSE IF compositeScore.n <= (0 - 50) * compositeScore.d THEN "SELL"
  ELSE "NEUTRAL"

\* lines 1005-1009
signal(compositeScore) ==
  IF compositeScore.n > 150 * compositeScore.d THEN "STRONG BUY"
  ELSE IF compositeScore.n > 50 * compositeScore.d THEN "BUY"
  ELSE IF compositeScore.n < (0 - 150) * compositeScore.d THEN "STRONG SELL"
  ELSE IF compositeScore.n < (0 - 50) * compositeScore.d THEN "SELL"
  ELSE "NEUTRAL"

\* fetchRedditData returns redditData and the handler answers: lines
\* 1002-1028.  compositeScore is the local before toFixed(3).
FinishV1(e, redditData) ==
  LET analysis == analyzeSentiments(redditData)
  IN [e EXCEPT !.pc = "done", !.sub = 0, !.mentions = redditData] @@
     [compositeScore |-> analysis.vaderAvg,
      response |-> [status |-> 200, signal |-> signal(analysis.vaderAvg),
                    score |-> Rounded(analysis.vaderAvg, 1),
                    positive |-> analysis.positive, negative |-> analysis.negative,
                    neutral |-> analysis.neutral, mentions |-> analysis.totalMentions,
                    trend |-> IF analysis.vaderAvg.n > 0 THEN "up" ELSE "down"]]

\* the next subreddit of the loop, or return mentions after the last one
NextSubV1(e) ==
  IF e.sub < NSubs THEN [e EXCEPT !.sub = @ + 1, !.pc = "fetch"]
  ELSE FinishV1(e, e.mentions)

\* bug: fetchRedditData has no try, and a rejected fetch reaches the catch
\* of the handler
FetchSettlesV1Uncaught(out) ==
  /\ eng.pc = "fetch"
  /\ eng' = CASE out = "throw" ->
                   [eng EXCEPT !.pc = "done", !.sub = 0, !.failed = @ + 1] @@
                   [response |-> [status |-> 500, error |-> "Analysis failed"]]
              [] out = "notOk" -> NextSubV1([eng EXCEPT !.failed = @ + 1])
              [] out = "ok" -> [eng EXCEPT !.pc = "json"]
  /\ UNCHANGED <<variant, paymentsDB, pc, hdr, loc, res, admitted, sub,
                 closed, paymentLog, col>>

\* the import or the fetch of a subreddit settles: a rejection goes to the
\* catch of fetchRedditData, which returns []; !response.ok continues
FetchSettlesV1(out) ==
  /\ eng.pc = "fetch"
  /\ eng' = CASE out = "throw" -> FinishV1([eng EXCEPT !.failed = @ + 1], << >>)
              [] out = "notOk" -> NextSubV1([eng EXCEPT !.failed = @ + 1])
              [] out = "ok" -> [eng EXCEPT !.pc = "json"]
  /\ UNCHANGED <<variant, paymentsDB, pc, hdr, loc, res, admitted, sub,
                 closed, paymentLog, col>>

\* await response.json() settles.  A body that is not JSON, or has no
\* data.children, throws into the same catch; otherwise the posts that
\* mention the coin, found, are pushed.
BodySettlesV1(body, found) ==
  /\ eng.pc = "json"
  /\ body # "posts" => found = << >>
  /\ eng' = IF body = "posts"
            THEN NextSubV1([eng EXCEPT !.mentions = @ \o found,
                                       !.delivered = @ + Len(found)])
            ELSE FinishV1([eng EXCEPT !.failed = @ + 1], << >>)
  /\ UNCHANGED <<variant, paymentsDB, pc, hdr, loc, res, admitted, sub,
                 closed, paymentLog, col>>

NextV1Route ==
  \/ \E out \in FeedOutcomes : FetchSettlesV1(out)
  \/ \E body \in {"notJson", "noChildren", "posts"},
        found \in ListsUpTo({0 - 150, 50, 150}, MaxFound) : BodySettlesV1(body, found)

SpecV1Route == InitV1Route /\ [][NextV1Route]_vars

\* ------------------------------------------------- GET /admin/payments
\* The admin route of the x402 v2 server next to its paid route.  eng holds
\* the configuration (process.env.ADMIN_KEY, Null when it is not set), and
\* the x-admin-key header (Null when absent) and the answer of the last
\* admin request.  The route of the v1.3.0 server, lines 1039-1054, makes
\* the same test over paymentsDB.
AdminSecret == "secret"

InitAdmin ==
  /\ variant = "v210"
  /\ paymentsDB = << >>
  /\ pc = [r \in Reqs |-> "new"]
  /\ hdr = [r \in Reqs |-> NoHeader]
  /\ loc = [r \in Reqs |-> NoLoc]
  /\ res = [r \in Reqs |-> NoRes]
  /\ admitted = [r \in Reqs |-> FALSE]
  /\ sub = [r \in Reqs |-> 0]
  /\ closed = {}
  /\ paymentLog = << >>
  /\ col = NoCall
  /\ \E key \in {Null, AdminSecret} :
        eng = [pc |-> "admin", ADMIN_KEY |-> key, header |-> Null, answer |-> NoRes]

\* the handler: 401 unless the header is strictly equal to ADMIN_KEY, else
\* the summary of paymentLog (totalRevenue in cents)
AdminPayments(apiKey) ==
  /\ eng.pc = "admin"
  /\ eng' = [eng EXCEPT
               !.header = apiKey,
               !.answer = IF apiKey # eng.ADMIN_KEY
                          THEN [status |-> 401, error |-> "Unauthorized"]
                          ELSE [status |-> 200, totalPayments |-> Len(paymentLog),
                                totalRevenue |-> 3 * Len(paymentLog),
                                payments |-> paymentLog]]
  /\ UNCHANGED <<variant, paymentsDB, pc, hdr, loc, res, admitted, sub,
                 closed, paymentLog, col>>

NextAdmin ==
  \/ \E r \in Reqs, h \in Headers, sdkOk \in BOOLEAN : ArriveV210(r, h, sdkOk)
  \/ \E r \in Reqs, out \in FeedOutcomes, analysisOk \in BOOLEAN :
        FeedRespondsV210(r, out, analysisOk)
  \/ \E r \in Reqs, analysisOk \in BOOLEAN : SleepEndsV210(r, analysisOk)
  \/ \E apiKey \in {Null, AdminSecret, "guess"} : AdminPayments(apiKey)

SpecAdmin == InitAdmin /\ [][NextAdmin]_vars

\* ------------------------------- facilitator answers with another status
\* The gateways with a facilitator that may also answer 2xx with verified =
\* true and a status other than 'confirmed' ("okPending"), which line 802
\* rejects like verified = false.
NextStatus ==
  \/ \E r \in Reqs, h \in HeadersClosing : ArriveWithoutPayment(r, h)
  \/ \E r \in Reqs, h \in HeadersClosing, logOk \in BOOLEAN : ArriveV100(r, h, logOk)
  \/ \E r \in Reqs, h \in HeadersClosing : ArriveV130(r, h)
  \/ \E r \in Reqs, providerOk \in BOOLEAN : FacilitatorThrows(r, providerOk)
  \/ \E r \in Reqs, out \in FacilitatorOutcomes \cup {"okPending"} :
        FacilitatorResponds(r, out)
  \/ \E r \in Reqs : FacilitatorBody(r)
  \/ \E r \in Reqs, providerOk \in BOOLEAN : FacilitatorBodyThrows(r, providerOk)
  \/ \E r \in Reqs, out \in TxOutcomes : GetTransaction(r, out)
  \/ \E r \in Reqs, out \in ReceiptOutcomes : GetTransactionReceipt(r, out)
  \/ \E r \in Reqs, logOk \in BOOLEAN : Resume(r, logOk)
  \/ \E r \in Reqs : IssueFetch(r)
  \/ \E r \in Reqs, out \in FeedOutcomes, analysisOk \in BOOLEAN :
        FeedResponds(r, out, analysisOk)
  \/ \E r \in Reqs : ClientDisconnects(r)

SpecStatus == Init /\ [][NextStatus]_vars

\* ======================================================================
\* Properties
\* ======================================================================
Denials == {402, 400, 403}

\* the ledger key of a payment under the gateway that is running
PaymentId(p) == IF variant = "v130" THEN PaymentIdV130(p) ELSE PaymentIdV100(p)

\* request r is decided in this step: it is answered or admitted
Decided(r) ==
  /\ res[r].status = 0 /\ ~admitted[r]
  /\ res'[r].status # 0 \/ admitted'[r]

\* p and q are the same payment: the same transactionHash, or the same
\* signature when no transactionHash is present
SamePayment(p, q) ==
  IF p.transactionHash # NoStr
  THEN q.transactionHash = p.transactionHash
  ELSE q.transactionHash = NoStr /\ q.signature = p.signature

\* another request carrying the same payment as r has been admitted before
ReplayOf(r) ==
  /\ hdr'[r].kind = "payment"
  /\ \E q \in Reqs \ {r} : admitted[q] /\ SamePayment(hdr[q].data, hdr'[r].data)

\* C1 (as stated): once a request carrying a payment has been admitted,
\* every later request carrying the same payment is denied with 403
\* 'Payment already used'.
C1_ReplayAlreadyUsed ==
  [][\A r \in Reqs : Decided(r) /\ ReplayOf(r) =>
        /\ ~admitted'[r]
        /\ res'[r] = [status |-> 403, error |-> "Payment already used"]]_vars

\* C1 (amended): once a request carrying a payment has been admitted, every
\* later request carrying the same payment is denied with 403, with
\* 'Payment already used' or, when its own verification fails, with
\* 'Payment verification failed'; it is never admitted.
C1_ReplayDenied ==
  [][\A r \in Reqs : Decided(r) /\ ReplayOf(r) =>
        /\ ~admitted'[r]
        /\ res'[r].status = 403
        /\ res'[r].error \in {"Payment already used", "Payment verification failed"}]_vars

C1_Witness ==
  \E r, q \in Reqs :
     /\ r # q /\ admitted[q] /\ hdr[r].kind = "payment"
     /\ SamePayment(hdr[q].data, hdr[r].data)
     /\ res[r] = [status |-> 403, error |-> "Payment verification failed"]

\* C2: of the requests in flight with the same payment identifier at most
\* one is admitted, under every interleaving of their suspension points.
C2_AtMostOneAdmittedPerId ==
  \A r, q \in Reqs :
     r # q /\ admitted[r] /\ admitted[q] => PaymentId(hdr[r].data) # PaymentId(hdr[q].data)

\* two requests with the same identifier are in flight at once; the
\* verification of one has succeeded, the other has been admitted and has
\* not been answered yet
C2_Witness ==
  \E r, q \in Reqs :
     /\ r # q /\ hdr[r].kind = "payment" /\ hdr[q].kind = "payment"
     /\ PaymentId(hdr[r].data) = PaymentId(hdr[q].data)
     /\ pc[r] = "verified" /\ loc[r].isValid = TRUE
     /\ admitted[q] /\ pc[q] = "awaitFeed"

\* C3: no two entries of paymentsDB have the same id.
C3_LedgerIdsUnique ==
  \A i, j \in 1..Len(paymentsDB) : i # j => paymentsDB[i].id # paymentsDB[j].id

C3_Witness == Len(paymentsDB) >= 2

\* C4: a request appends exactly one ledger entry if it is admitted and
\* leaves the ledger unchanged if it is denied (402, 400 or 403), also
\* when the denial comes from a failing write of payments.log.
C4_LedgerWriteIffAdmitted ==
  [][\A r \in Reqs :
        /\ (res[r].status = 0 /\ res'[r].status \in Denials) => paymentsDB' = paymentsDB
        /\ (~admitted[r] /\ admitted'[r]) => Len(paymentsDB') = Len(paymentsDB) + 1]_vars

\* C5: a feed fetch is in flight only for a request the gateway has
\* admitted, and a request that was denied (402, 400 or 403) was never
\* admitted and has no fetch.
C5_FetchOnlyAfterAdmit ==
  \A r \in Reqs :
     /\ (sub[r] > 0 \/ pc[r] \in {"awaitImport", "awaitFeed"}) => admitted[r]
     /\ res[r].status \in Denials => ~admitted[r] /\ sub[r] = 0 /\ pc[r] = "done"

C5_Witness ==
  \E r, q \in Reqs :
     /\ admitted[r] /\ sub[r] = NSubs
     /\ res[q].status = 403 /\ hdr[q].kind = "payment"

\* C6: no request is admitted whose payment amount differs from the
\* required amount, on every verification path.
C6_AdmittedPaysPrice ==
  \A r \in Reqs : admitted[r] => hdr[r].data.amount = Price

\* C7 (as stated): whenever the facilitator call fails, by throwing or by
\* a non-2xx status, verifyPaymentWithFacilitator invokes the on-chain
\* verifier and returns its result.
C7_FallbackOnAnyFailure ==
  \A r \in Reqs :
     pc[r] = "verified" /\ loc[r].fac \in {"throw", "notOk"} =>
        loc[r].onChain /\ loc[r].isValid = loc[r].chainResult

\* C7 (amended): whenever the facilitator call throws (timeout,
\* unreachable), verifyPaymentWithFacilitator invokes the on-chain verifier
\* and returns its result; on a non-2xx status it returns false without
\* invoking the on-chain verifier.
C7_FallbackOnThrow ==
  \A r \in Reqs :
     pc[r] = "verified" =>
        /\ loc[r].fac = "throw" => loc[r].onChain /\ loc[r].isValid = loc[r].chainResult
        /\ loc[r].fac = "notOk" => ~loc[r].onChain /\ loc[r].isValid = FALSE

C7_Witness ==
  \E r \in Reqs :
     pc[r] = "verified" /\ loc[r].fac = "throw" /\ loc[r].onChain /\ loc[r].isValid = TRUE

\* the transaction named by request r was found, its receipt has status
\* success and its recipient is the configured wallet
ChainConfirms(r) ==
  /\ hdr[r].data.transactionHash # NoStr
  /\ loc[r].tx = "found"
  /\ loc[r].receipt = "success"
  /\ toLowerCase(ChainTx(hdr[r].data.transactionHash).to) = toLowerCase(WALLET_ADDRESS)

InLedger(db, id) == \E i \in 1..Len(db) : db[i].id = id

C9_NoFallbackAfterResponse ==
  \A r \in Reqs : loc[r].onChain => loc[r].fac = "throw"

Arrives(r) == pc[r] = "new" /\ pc'[r] # "new"

\* the identifier of the payment r carries is in the ledger
IdInLedger(r) ==
  /\ hdr'[r].kind = "payment"
  /\ InLedger(paymentsDB, PaymentId(hdr'[r].data))

\* C11 (as stated): the replay check precedes verification: a request whose
\* payment identifier is already in the ledger when it arrives is denied as
\* already used at once, without a call to the facilitator or to the chain.
C11_ReplayCheckFirst ==
  [][\A r \in Reqs : Arrives(r) /\ IdInLedger(r) =>
        /\ res'[r] = [status |-> 403, error |-> "Payment already used"]
        /\ pc'[r] = "done"
        /\ loc'[r] = NoLoc]_vars

\* C11 (amended): the replay check follows verification.  The v1.3.0
\* gateway calls the facilitator for a request whose identifier is already
\* in the ledger and decides only when the verification has returned: 403
\* 'Payment already used' when it returned true, 403 'Payment verification
\* failed' otherwise.  The gateway of part_002 calls no verifier and answers
\* 403.  In both the request is not admitted and the ledger is unchanged.
C11_ReplayCheckAfterVerification ==
  [][\A r \in Reqs : IdInLedger(r) =>
        /\ (Arrives(r) /\ variant = "v130") =>
              pc'[r] = "awaitFacilitator" /\ res'[r].status = 0
        /\ Decided(r) =>
              /\ ~admitted'[r]
              /\ paymentsDB' = paymentsDB
              /\ res'[r].status = 403
              /\ variant = "v130" =>
                    /\ pc[r] = "verified"
                    /\ res'[r].error = IF loc[r].isValid = TRUE
                                       THEN "Payment already used"
                                       ELSE "Payment verification failed"
              /\ variant = "v100" => Arrives(r) /\ loc'[r] = NoLoc]_vars

\* the facilitator call of a request is in flight while the identifier of
\* its payment is in the ledger and the request that was admitted with it
\* has been answered
C11_Witness ==
  \E r, q \in Reqs :
     /\ r # q /\ variant = "v130" /\ hdr[r].kind = "payment"
     /\ pc[r] = "awaitFacilitator"
     /\ InLedger(paymentsDB, PaymentId(hdr[r].data))
     /\ admitted[q] /\ res[q].status = 200
     /\ PaymentId(hdr[q].data) = PaymentId(hdr[r].data)

\* the facilitator call of r threw and the chain could not be queried: the
\* provider could not be built or one of its two queries threw
BothVerifiersFail(r) ==
  /\ pc[r] = "verified" /\ loc[r].fac = "throw" /\ loc[r].onChain
  /\ hdr[r].data.transactionHash # NoStr
  /\ loc[r].tx \in {Null, "throw"} \/ loc[r].receipt = "throw"

\* the payment is decodable and well-formed and fails the amount or the
\* recipient requirement
Mismatch(p) ==
  /\ p.signature # NoStr /\ p.sigValid
  /\ p.amount # Price \/ toLowerCase(p.to) # toLowerCase(WALLET_ADDRESS)

\* C12 (as stated): a denial has status 400 for an undecodable assertion,
\* 403 for an amount or recipient mismatch and for an identifier already
\* used, and 500 when both the facilitator and the on-chain verifier fail.
C12_DenialStatus500 ==
  [][\A r \in Reqs : Decided(r) /\ ~admitted'[r] =>
        /\ hdr'[r].kind = "malformed" => res'[r].status = 400
        /\ (hdr'[r].kind = "payment" /\ Mismatch(hdr'[r].data)) => res'[r].status = 403
        /\ res'[r].error = "Payment already used" => res'[r].status = 403
        /\ (hdr'[r].kind = "payment" /\ BothVerifiersFail(r)) => res'[r].status = 500]_vars

\* C12 (amended): a denial has status 400 for an undecodable assertion and
\* 403 for an amount or recipient mismatch, for an identifier already used
\* and when both the facilitator and the on-chain verifier fail; the gateway
\* never answers 500.
C12_DenialStatus ==
  [][\A r \in Reqs : Decided(r) /\ ~admitted'[r] =>
        /\ res'[r].status \in Denials
        /\ hdr'[r].kind = "malformed" => res'[r].status = 400
        /\ (hdr'[r].kind = "payment" /\ Mismatch(hdr'[r].data)) => res'[r].status = 403
        /\ res'[r].error = "Payment already used" => res'[r].status = 403
        /\ (hdr'[r].kind = "payment" /\ BothVerifiersFail(r)) =>
              res'[r] = [status |-> 403, error |-> "Payment verification failed"]]_vars

\* both verifiers have failed for a request that is about to be answered
C12_Witness ==
  \E r \in Reqs :
     /\ hdr[r].kind = "payment" /\ BothVerifiersFail(r)
     /\ loc[r].tx = "throw" /\ loc[r].isValid = FALSE

\* C13: a request without X-Payment header is answered 402 with the payment
\* requirement in the step of its arrival; no facilitator call, no chain
\* query and no feed fetch is made for it, it is not admitted and the
\* ledger is unchanged.
C13_NoHeaderChallenge ==
  [][\A r \in Reqs :
        /\ (Arrives(r) /\ hdr'[r].kind = "none") => paymentsDB' = paymentsDB
        /\ (pc'[r] # "new" /\ hdr'[r].kind = "none") =>
              /\ res'[r] = [status |-> 402, error |-> "X-PAYMENT header is required"]
              /\ pc'[r] = "done"
              /\ loc'[r] = NoLoc /\ sub'[r] = 0 /\ ~admitted'[r]]_vars

\* a request without header was answered while the ledger holds an entry
C13_Witness ==
  \E r \in Reqs :
     /\ hdr[r].kind = "none" /\ res[r].status = 402
     /\ Len(paymentsDB) > 0

\* the decoded object lacks a required field
LacksField(p) == p.signature = NoStr

SameTransaction(p, q) ==
  \/ /\ p.transactionHash # NoStr /\ q.transactionHash # NoStr
     /\ toLowerCase(p.transactionHash) = toLowerCase(q.transactionHash)
  \/ p.signature # NoStr /\ q.signature = p.signature

\* C16: a payment is redeemed at most once, also when it is presented
\* again in another encoding (its transaction hash in another letter case,
\* or once with transactionHash and once with only its signature): no two
\* requests presenting the same payment are both admitted.
C16_TransactionRedeemedOnce ==
  \A r, q \in Reqs :
     r # q /\ admitted[r] /\ admitted[q] => ~SameTransaction(hdr[r].data, hdr[q].data)

\* C17: two assertions for distinct payments never get the same
\* identifier, so they are not treated as replays of each other: a request
\* is denied as already used only if the ledger entry it meets was
\* written for a request presenting the same payment.
C17_DistinctPaymentsNotReplays ==
  [][\A r \in Reqs :
        (Decided(r) /\ res'[r].error = "Payment already used") =>
           \E q \in Reqs \ {r} :
              /\ hdr[q].kind = "payment" /\ pc[q] # "new"
              /\ PaymentId(hdr[q].data) = PaymentId(hdr'[r].data)
              /\ SameTransaction(hdr[q].data, hdr'[r].data)]_vars

\* the payment log of the server that is running
ServerLog == IF variant = "v210" THEN paymentLog ELSE paymentsDB

\* C18: the payment record of an admitted request is written whatever the
\* outcome of the analysis: the log holds a record for every admitted
\* request that has been answered, with 200 or with 500, and no more
\* records than there are admitted requests.
C18_RecordWhateverOutcome ==
  LET answered == {r \in Reqs : admitted[r] /\ pc[r] = "done"}
      all == {r \in Reqs : admitted[r]}
  IN /\ Cardinality(answered) <= Len(ServerLog)
     /\ Len(ServerLog) <= Cardinality(all)

\* C19: the ledger is append-only: every step keeps the entries it holds,
\* in place and unmodified, and its length never decreases, also for
\* requests whose analysis fails and for requests whose client
\* disconnects during the collection.
C19_LedgerAppendOnly ==
  [][/\ Len(paymentsDB') >= Len(paymentsDB)
     /\ \A i \in 1..Len(paymentsDB) : paymentsDB'[i] = paymentsDB[i]]_vars

\* the ledger holds two entries; the client of one request went away
\* during its collection and the analysis of a request has failed
C19_Witness ==
  /\ Len(paymentsDB) = 2
  /\ \E r \in closed : pc[r] = "done"
  /\ \E q \in Reqs : res[q] = [status |-> 500, error |-> "Analysis failed"]

\* C20: the source collector never propagates an error: whatever the
\* upstream answers to each query (network error, timeout, non-2xx, 429, a
\* body without data.children, an empty listing), fetchSubreddit and
\* searchReddit return a list, empty in the worst case, and the loop goes
\* on with the remaining feeds: every feed before the current one has
\* returned, and at the end all subreddits and both searches have.
C20_CollectorNeverThrows ==
  col.pc # "idle" =>
     /\ col.pc \in {"fetch", "json", "wait429", "sleep", "done"}
     /\ \A i \in 1..Len(col.last) : col.last[i] \in Titles
     /\ \A i \in 1..Len(col.allPosts) : col.allPosts[i] \in Titles
     /\ col.pc # "done" => col.calls = col.feed - 1
     /\ col.pc = "done" => col.calls = col.nsubs + NSearches

\* the worst case: every feed of a coin with the longest subreddit list
\* has returned, each an empty list
C20_Witness ==
  /\ col.pc = "done"
  /\ col.nsubs = MaxSubs
  /\ col.calls = MaxSubs + NSearches
  /\ col.allPosts = << >>

\* C21: each feed query reacts to HTTP 429 by waiting the backoff and
\* retrying once: one call of fetchSubreddit or of searchReddit makes at most
\* two attempts, waits at most one backoff, and has waited once it has been
\* answered 429.
C21_SingleRetryOn429 ==
  col.pc \in {"fetch", "json", "wait429"} =>
     /\ col.url <= 2
     /\ col.waits <= 1
     /\ col.n429 > 0 => col.waits = 1

\* C22: the fetches of one getSentiment call are sequential and every fetch
\* but the first is issued at the end of a delay (the 500 ms sleep between
\* feeds or the 2 s wait after a 429), never directly when the previous
\* fetch or body read settles.
C22_DelayBetweenFetches ==
  [][(col.pc # "idle" /\ col' # col /\ col'.pc = "fetch")
        => col.pc \in {"sleep", "wait429"}]_vars

\* C23: every getSentiment call eventually returns, whatever the upstream
\* does, a stalled body included.
C23_EveryCallReturns == (col.pc # "idle") ~> (col.pc = "done")

\* the first occurrences of the keys of a list, in the order of the list
FirstIndices(posts) ==
  {i \in 1..Len(posts) : \A j \in 1..(i - 1) : Key(posts[j]) # Key(posts[i])}

FirstOccurrences(posts) ==
  LET idx == FirstIndices(posts)
  IN [k \in 1..Cardinality(idx) |->
        posts[CHOOSE i \in idx : Cardinality({j \in idx : j <= i}) = k]]

Keys(posts) == {Key(posts[i]) : i \in 1..Len(posts)}

\* C24: the deduplication keeps, for each key (the lower-cased first 50
\* characters of the title), exactly the first post of the input with that
\* key: the output is the input restricted to the first occurrences, in the
\* same order, no two posts of the output share a key and every key of the
\* input has a post in the output.
C24_DedupeKeepsFirst ==
  eng.pc = "done" =>
     /\ eng.unique = FirstOccurrences(eng.allPosts)
     /\ \A i, j \in 1..Len(eng.unique) : i # j => Key(eng.unique[i]) # Key(eng.unique[j])
     /\ Keys(eng.unique) = Keys(eng.allPosts)

\* two posts whose titles differ in case and after the 50th character, then
\* a post with another key: the second is dropped
C24_Witness ==
  /\ eng.pc = "done"
  /\ Len(eng.allPosts) = 3
  /\ eng.allPosts[1].title = LongA
  /\ eng.allPosts[2].title = LongAUpper
  /\ eng.allPosts[3].title = ShortA
  /\ eng.unique = <<eng.allPosts[1], eng.allPosts[3]>>

\* C25: the deduplication is idempotent: applied to its own output it
\* returns that output unchanged.
C25_DedupeIdempotent ==
  eng.pc = "done" =>
     /\ dedupe(eng.unique) = eng.unique
     /\ dedupe(dedupe(eng.allPosts)) = dedupe(eng.allPosts)

\* three posts with one key
C25_Witness ==
  /\ eng.pc = "done"
  /\ Len(eng.allPosts) = 3
  /\ Cardinality(Keys(eng.allPosts)) = 1
  /\ Len(eng.unique) = 1

\* the title or the body of the post contains the symbol or the name of
\* the coin, whatever the case of the letters
Mentions(post, coin) ==
  \E field \in {post.title, post.selftext}, word \in {coin, CoinName(coin)} :
     includes(toUpperCase(field), toUpperCase(word))

C27_ScoreAndConfidenceBounds ==
  (eng.pc = "done" /\ Len(eng.unique) > 0) =>
     LET a == eng.analysis
     IN /\ \A i \in 1..Len(a.analysed) : engagement(a.analysed[i]) > 0
        /\ totalWeight(a.analysed) > 0
        /\ a.normalizedScore.d > 0
        /\ a.normalizedScore.n <= 1000 * a.normalizedScore.d
        /\ a.normalizedScore.n >= (0 - 1000) * a.normalizedScore.d
        /\ a.score \in (0 - 1000)..1000
        /\ a.exactConfidence.d > 0
        /\ a.exactConfidence.n >= 0
        /\ 20 * a.exactConfidence.n <= 19 * a.exactConfidence.d
        /\ a.confidence \in 0..95

\* a post with a negative score and no comment, of polarity 1, and a post
\* with score 0 of polarity -1
C27_Witness ==
  /\ eng.pc = "done"
  /\ \E i \in 1..Len(eng.analysis.analysed) :
        /\ eng.analysis.analysed[i].score < 0
        /\ eng.analysis.analysed[i].compound = 1000
  /\ \E i \in 1..Len(eng.analysis.analysed) :
        /\ eng.analysis.analysed[i].score = 0
        /\ eng.analysis.analysed[i].compound = 0 - 1000
  /\ eng.analysis.postsAnalyzed = 2
  /\ eng.analysis.score = 0

\* C28: with zero collected mentions the report returned to the caller has
\* score 0, confidence 0, the label neutral, mention count 0, an all-zero
\* breakdown and no top posts.
C28_ZeroMentionsReport ==
  (eng.pc = "done" /\ Len(eng.unique) = 0) =>
     /\ eng.response.signal \in {"neutral", "NEUTRAL"}
     /\ eng.response.score = Number(0)
     /\ eng.response.confidence = Number(0)
     /\ eng.response.postsAnalyzed = 0
     /\ eng.response.positiveCount = 0
     /\ eng.response.neutralCount = 0
     /\ eng.response.negativeCount = 0
     /\ eng.response.topPosts = << >>

Labels == <<"very bearish", "bearish", "neutral", "bullish", "very bullish">>
Rank(label) == CHOOSE k \in 1..Len(Labels) : Labels[k] = label

\* scores on and around the four thresholds, in thousandths
SampleScores ==
  {Frac(k, 1) : k \in {0 - 1000, 0 - 501, 0 - 500, 0 - 499, 0 - 151, 0 - 150,
                       0 - 149, 0, 149, 150, 151, 499, 500, 501, 1000}}

\* C29: the label is a function of the normalized score with exactly one
\* label per score: very bullish iff score >= 0.5, bullish iff
\* 0.15 <= score < 0.5, very bearish iff score <= -0.5, bearish iff
\* -0.5 < score <= -0.15, neutral iff -0.15 < score < 0.15; and the label is
\* monotone in the score.
C29_LabelBands ==
  (eng.pc = "done" /\ Len(eng.unique) > 0) =>
     LET s == eng.analysis.normalizedScore
         l == eng.analysis.sentiment
     IN /\ \E k \in 1..Len(Labels) : Labels[k] = l
        /\ l = "very bullish" <=> s.n >= 500 * s.d
        /\ l = "bullish" <=> (s.n >= 150 * s.d /\ s.n < 500 * s.d)
        /\ l = "very bearish" <=> s.n <= (0 - 500) * s.d
        /\ l = "bearish" <=> (s.n > (0 - 500) * s.d /\ s.n <= (0 - 150) * s.d)
        /\ l = "neutral" <=> (s.n > (0 - 150) * s.d /\ s.n < 150 * s.d)
        /\ \A t \in SampleScores :
              /\ s.n <= t.n * s.d => Rank(l) <= Rank(sentimentLabel(t))
              /\ s.n >= t.n * s.d => Rank(l) >= Rank(sentimentLabel(t))

\* a score of exactly 0.5, of more than one post
C29_Witness ==
  /\ eng.pc = "done"
  /\ eng.analysis.postsAnalyzed >= 2
  /\ eng.analysis.normalizedScore.n = 500 * eng.analysis.normalizedScore.d
  /\ eng.analysis.sentiment = "very bullish"

\* C30: the confidence of a non-empty analysed set of total posts is
\* min(max(positive, negative, neutral) / total * 0.75
\*     + min(total / 30, 1) * 0.25, 0.95): it never exceeds 0.95, reaches
\* 0.95 only with total >= 24, also after the rounding of the report, and
\* for 5 posts with 3 in the largest category it is 59/120, below 0.95.
C30_ConfidenceFormula ==
  eng.pc = "rated" =>
     LET c == eng.exactConfidence
         t == Total(eng.breakdown)
         m == MaxCategory(eng.breakdown)
         x == 90 * m + (IF t <= 30 THEN t ELSE 30) * t
         y == 120 * t
     IN /\ c.d > 0
        /\ IF 20 * x >= 19 * y THEN 20 * c.n = 19 * c.d ELSE c.n * y = x * c.d
        /\ 20 * c.n <= 19 * c.d
        /\ 20 * c.n = 19 * c.d => t >= 24
        /\ eng.confidence <= 95
        /\ eng.confidence = 95 => t >= 24
        /\ (t = 5 /\ m = 3) => (120 * c.n = 59 * c.d /\ eng.confidence = 49)

\* 24 posts of one category: the cap is reached exactly
C30_Witness ==
  /\ eng.pc = "rated"
  /\ Total(eng.breakdown) = 24
  /\ MaxCategory(eng.breakdown) = 24
  /\ 20 * eng.exactConfidence.n = 19 * eng.exactConfidence.d
  /\ eng.confidence = 95

\* the number of entries of a list with engagement e
Engaged(list, e) == Cardinality({i \in 1..Len(list) : list[i].engagement = e})

\* C31: topPosts holds min(5, postsAnalyzed) entries, all made from analysed
\* posts and none more often than it was analysed, in non-increasing order
\* of engagement, and no analysed post left out has a strictly greater
\* engagement than a post included.
C31_TopPostsRanked ==
  eng.pc = "analysed" =>
     LET top == eng.analysis.topPosts
         all == analyzedPosts(eng.analysis.analysed)
     IN /\ Len(top) = Min(TopCount, eng.analysis.postsAnalyzed)
        /\ \A i \in 1..Len(top) :
              Cardinality({j \in 1..Len(top) : top[j] = top[i]})
                 <= Cardinality({j \in 1..Len(all) : all[j] = top[i]})
        /\ \A i \in 1..(Len(top) - 1) : top[i].engagement >= top[i + 1].engagement
        /\ \A i \in 1..Len(top), j \in 1..Len(all) :
              all[j].engagement > top[i].engagement
                 => Engaged(top, all[j].engagement) = Engaged(all, all[j].engagement)

\* six posts analysed, the first of them the one with the lowest score, which
\* is left out
C31_Witness ==
  /\ eng.pc = "analysed"
  /\ eng.analysis.postsAnalyzed = 6
  /\ eng.posts[1].score < 0
  /\ \E i \in 2..6 : eng.posts[i].score = 100
  /\ \E i \in 2..6 : eng.posts[i].score = 10
  /\ Len(eng.analysis.topPosts) = 5
  /\ \A i \in 1..5 : eng.analysis.topPosts[i].engagement > 0

\* C32: feed failures never fail an admitted request: whatever queries of
\* fetchRedditData fail, the handler answers 200 with a complete report,
\* and the failures show only in the number of mentions, which is at most
\* the number that the listings delivered and equal to it when no query
\* failed.
C32_FeedFailuresAbsorbed ==
  eng.pc = "done" =>
     /\ eng.response.status = 200
     /\ eng.response.signal \in {"STRONG BUY", "BUY", "NEUTRAL", "SELL", "STRONG SELL"}
     /\ eng.response.mentions = Len(eng.mentions)
     /\ eng.response.mentions <= eng.delivered
     /\ eng.failed = 0 => eng.response.mentions = eng.delivered

\* a listing with a mention was read, a later fetch was rejected, and the
\* report counts no mention
C32_Witness ==
  /\ eng.pc = "done"
  /\ eng.failed = 1
  /\ eng.delivered > 0
  /\ eng.response.status = 200
  /\ eng.response.mentions = 0

C38_PercentagesSumTo100 ==
  eng.pc = "done" =>
     eng.response.positive + eng.response.negative + eng.response.neutral = 100

\* C33: the admin payments endpoint returns the ledger summary only to a
\* request whose x-admin-key header is present and equal to the configured
\* secret, in every configuration, also when ADMIN_KEY is not set; every
\* other request gets 401.
C33_AdminGated ==
  eng.answer.status # 0 =>
     IF eng.header # Null /\ eng.ADMIN_KEY # Null /\ eng.header = eng.ADMIN_KEY
     THEN eng.answer.status = 200
     ELSE eng.answer = [status |-> 401, error |-> "Unauthorized"]

\* C35: a request is admitted by the v1.3.0 gateway only if, in that same
\* request, either the facilitator answered 2xx with verified = true and
\* status = 'confirmed', or the facilitator call threw and
\* verifyPaymentOnChain returned true.
C35_AdmissionGrounds ==
  [][\A r \in Reqs :
        (variant = "v130" /\ ~admitted[r] /\ admitted'[r]) =>
           \/ loc[r].fac = "okVerified" /\ ~loc[r].onChain
           \/ loc[r].fac = "throw" /\ loc[r].chainResult = TRUE]_vars

\* the part of C35 that the code keeps: an answer with verified = true and
\* a status other than 'confirmed' is never followed by the admission of
\* its request
PendingNeverAdmits ==
  [][\A r \in Reqs : loc[r].fac = "okPending" => ~admitted'[r]]_vars

\* such an answer has been read and verifyPaymentWithFacilitator has
\* returned false
PendingReached ==
  \E r \in Reqs : pc[r] = "verified" /\ loc[r].fac = "okPending" /\ loc[r].isValid = FALSE

\* C36: the breakdown counts sum to postsAnalyzed and each analysed post is
\* counted in exactly one category: positive counts the posts with compound
\* >= 0.05, negative those with compound <= -0.05, neutral the others.
C36_BreakdownPartition ==
  eng.pc = "done" =>
     LET a == eng.analysis
         In(lo, hi) == Cardinality({i \in 1..Len(a.analysed) :
                          a.analysed[i].compound >= lo /\ a.analysed[i].compound <= hi})
     IN /\ a.breakdown.positive = In(50, 1000)
        /\ a.breakdown.negative = In(0 - 1000, 0 - 50)
        /\ a.breakdown.neutral = In(0 - 49, 49)
        /\ a.breakdown.positive + a.breakdown.negative + a.breakdown.neutral
              = a.postsAnalyzed

\* three posts were analysed, one of each category
C36_Witness ==
  /\ eng.pc = "done"
  /\ eng.analysis.postsAnalyzed = 3
  /\ eng.analysis.breakdown = [positive |-> 1, negative |-> 1, neutral |-> 1]

\* C37: the label and the reported score agree: the label is the band of the
\* score as reported, after its rounding to three decimals.
C37_LabelMatchesReportedScore ==
  (eng.pc = "analysed" /\ eng.analysis.postsAnalyzed > 0) =>
     eng.analysis.sentiment = sentimentLabel(Frac(eng.analysis.score, 1))

====
